---- MODULE Spec2Model ----
(***************************************************************************)
(* Model of src/tetris.c: a fixed-capacity circular queue of pieces        *)
(* (FilaPecas), the piece generator (gerarPeca) with its global id         *)
(* counter, and the menu loop of main that drives them.                    *)
(***************************************************************************)
EXTENDS Integers, Sequences, FiniteSets, TLC

\* ---------------------------------------------------------------- constants
\* #define CAPACIDADE_FILA 5
CAPACIDADE_FILA == 5

\* Bound of the model: inserirPeca generates a piece only while the id
\* counter is below MaxId (the C int counter is unbounded for our purposes).
MaxId == 10

\* Bound of the model: consecutive failed calls are counted up to MaxFalhas.
MaxFalhas == 2

\* char tipos[] = {'I', 'O', 'T', 'L'};
tipos == <<"I", "O", "T", "L">>

\* int num_tipos = sizeof(tipos) / sizeof(tipos[0]);
num_tipos == Len(tipos)

\* Bound of the model: the random draws explored are 0 .. MaxIndiceAleatorio
\* (at most num_tipos - 1, the largest value of rand() % num_tipos).
MaxIndiceAleatorio == 0

\* Values of rand() % num_tipos that are explored.
IndicesAleatorios ==
    0 .. (IF MaxIndiceAleatorio < num_tipos THEN MaxIndiceAleatorio ELSE num_tipos - 1)

\* Indices of the backing array elementos[CAPACIDADE_FILA].
Indices == 0 .. (CAPACIDADE_FILA - 1)

\* Content of a slot of the automatic variable `fila` of main before any
\* write; preencherFilaInicial(&fila, CAPACIDADE_FILA) overwrites all of them.
NaoEscrito == [tipo |-> "?", id |-> -1]

\* A numeric menu option other than 0, 1 and 2 (the default: branch).
OutrasOpcoes == {3}

\* ---------------------------------------------------------------- state
VARIABLES
    fila,             \* FilaPecas fila: [elementos, frente, tras, tamanho]
    proximo_id_peca,  \* int proximo_id_peca (global)
    opcao,            \* int opcao of main: <<>> while unassigned, else <<n>>
    pc,               \* position in main: "exibir", "ler", "fim"
    saida,            \* what the last step printed: [msg, pecas]
    chamada,          \* last queue operation called: "nenhuma", "jogarPeca", "inserirPeca"
    ret,              \* return value of that call
    pendentes,        \* history: pieces enqueued and not yet returned, oldest first
    num_jogadas,      \* history: number of successful dequeues so far
    cenario,          \* history: shape of the successful calls so far
    falhas_seguidas,  \* history: consecutive failed calls of `chamada`, up to MaxFalhas
    num_pecas         \* int num_pecas: argument of the last preencherFilaInicial call

vars == <<fila, proximo_id_peca, opcao, pc, saida, chamada, ret,
          pendentes, num_jogadas, cenario, falhas_seguidas, num_pecas>>

\* ---------------------------------------------------------------- functions
\* void inicializarFila(FilaPecas* fila)
inicializarFila(f) ==
    [f EXCEPT !.frente = 0, !.tras = -1, !.tamanho = 0]

\* gerarPeca with the post-increment of the counter left out.
gerarPeca_semIncremento(id, indice_aleatorio) ==
    [peca    |-> [tipo |-> tipos[indice_aleatorio + 1], id |-> id],
     proximo |-> id]

\* Peca gerarPeca(): the piece built from the counter value `id` and the
\* random index, and the counter after the post-increment.
gerarPeca(id, indice_aleatorio) ==
    [peca    |-> [tipo |-> tipos[indice_aleatorio + 1], id |-> id],
     proximo |-> id + 1]

\* The for loop of preencherFilaInicial, from iteration i; rs[i+1] is the
\* random index drawn by the gerarPeca call of iteration i.
RECURSIVE preencherLaco(_, _, _, _, _)
preencherLaco(f, prox, i, n_pecas, rs) ==
    IF i < n_pecas
    THEN LET tras == (f.tras + 1) % CAPACIDADE_FILA
             g    == gerarPeca(prox, rs[i + 1])
         IN  preencherLaco([f EXCEPT !.tras = tras,
                                     !.elementos[tras] = g.peca,
                                     !.tamanho = @ + 1],
                           g.proximo, i + 1, n_pecas, rs)
    ELSE [fila |-> f, proximo |-> prox]

\* preencherFilaInicial clamping an oversized request one short of the
\* capacity.
preencherFilaInicial_limiteCurto(f, prox, n_pecas, rs) ==
    LET n == IF n_pecas > CAPACIDADE_FILA THEN CAPACIDADE_FILA - 1 ELSE n_pecas
    IN  preencherLaco(f, prox, 0, n, rs)

\* void preencherFilaInicial(FilaPecas* fila, int num_pecas)
preencherFilaInicial(f, prox, n_pecas, rs) ==
    LET n == IF n_pecas > CAPACIDADE_FILA THEN CAPACIDADE_FILA ELSE n_pecas
    IN  preencherLaco(f, prox, 0, n, rs)

\* The result of a successful insertion at index `tras` (helper of the
\* variants of inserirPeca below).
inseridaEm(f, prox, r, tras) ==
    LET g == [peca    |-> [tipo |-> tipos[r + 1], id |-> prox],
              proximo |-> prox + 1]
    IN  [fila |-> [f EXCEPT !.tras = tras,
                            !.elementos[tras] = g.peca,
                            !.tamanho = @ + 1],
         proximo |-> g.proximo, ret |-> 1,
         saida |-> [msg |-> "inserida", pecas |-> <<g.peca>>]]

\* inserirPeca with the full check off by one (> instead of ==).
inserirPeca_verificacaoFrouxa(f, prox, r) ==
    IF f.tamanho > CAPACIDADE_FILA
    THEN [fila |-> f, proximo |-> prox, ret |-> 0,
          saida |-> [msg |-> "cheia", pecas |-> <<>>]]
    ELSE inseridaEm(f, prox, r, (f.tras + 1) % CAPACIDADE_FILA)

\* inserirPeca generating the piece before the full check, so that a
\* refused insertion still consumes an id.
inserirPeca_geraAntes(f, prox, r) ==
    IF f.tamanho = CAPACIDADE_FILA
    THEN [fila |-> f, proximo |-> prox + 1, ret |-> 0,
          saida |-> [msg |-> "cheia", pecas |-> <<>>]]
    ELSE inseridaEm(f, prox, r, (f.tras + 1) % CAPACIDADE_FILA)

\* inserirPeca whose tras stops at the last index instead of wrapping.
inserirPeca_semCircular(f, prox, r) ==
    IF f.tamanho = CAPACIDADE_FILA
    THEN [fila |-> f, proximo |-> prox, ret |-> 0,
          saida |-> [msg |-> "cheia", pecas |-> <<>>]]
    ELSE inseridaEm(f, prox, r,
                    IF f.tras + 1 < CAPACIDADE_FILA THEN f.tras + 1
                                                    ELSE CAPACIDADE_FILA - 1)

\* inserirPeca with the tamanho++ left out.
inserirPeca_semTamanho(f, prox, r) ==
    IF f.tamanho = CAPACIDADE_FILA
    THEN [fila |-> f, proximo |-> prox, ret |-> 0,
          saida |-> [msg |-> "cheia", pecas |-> <<>>]]
    ELSE LET tras == (f.tras + 1) % CAPACIDADE_FILA
             peca == [tipo |-> tipos[r + 1], id |-> prox]
         IN  [fila |-> [f EXCEPT !.tras = tras, !.elementos[tras] = peca],
              proximo |-> prox + 1, ret |-> 1,
              saida |-> [msg |-> "inserida", pecas |-> <<peca>>]]

\* inserirPeca storing the piece at index tamanho instead of index tras.
inserirPeca_indiceTamanho(f, prox, r) ==
    IF f.tamanho = CAPACIDADE_FILA
    THEN [fila |-> f, proximo |-> prox, ret |-> 0,
          saida |-> [msg |-> "cheia", pecas |-> <<>>]]
    ELSE LET tras == (f.tras + 1) % CAPACIDADE_FILA
             peca == [tipo |-> tipos[r + 1], id |-> prox]
         IN  [fila |-> [f EXCEPT !.tras = tras,
                                 !.elementos[f.tamanho] = peca,
                                 !.tamanho = @ + 1],
              proximo |-> prox + 1, ret |-> 1,
              saida |-> [msg |-> "inserida", pecas |-> <<peca>>]]

\* inserirPeca advancing tras without the % CAPACIDADE_FILA; the store
\* past the end of the array is left out.
inserirPeca_semModulo(f, prox, r) ==
    IF f.tamanho = CAPACIDADE_FILA
    THEN [fila |-> f, proximo |-> prox, ret |-> 0,
          saida |-> [msg |-> "cheia", pecas |-> <<>>]]
    ELSE LET tras == f.tras + 1
             peca == [tipo |-> tipos[r + 1], id |-> prox]
         IN  [fila |-> [f EXCEPT !.tras = tras,
                                 !.elementos = [i \in Indices |->
                                     IF i = tras THEN peca ELSE f.elementos[i]],
                                 !.tamanho = @ + 1],
              proximo |-> prox + 1, ret |-> 1,
              saida |-> [msg |-> "inserida", pecas |-> <<peca>>]]

\* int inserirPeca(FilaPecas* fila); r is the value of rand() % num_tipos.
inserirPeca(f, prox, r) ==
    IF f.tamanho = CAPACIDADE_FILA
    THEN [fila |-> f, proximo |-> prox, ret |-> 0,
          saida |-> [msg |-> "cheia", pecas |-> <<>>]]
    ELSE LET tras == (f.tras + 1) % CAPACIDADE_FILA
             g    == gerarPeca(prox, r)
         IN  [fila |-> [f EXCEPT !.tras = tras,
                                 !.elementos[tras] = g.peca,
                                 !.tamanho = @ + 1],
              proximo |-> g.proximo, ret |-> 1,
              saida |-> [msg |-> "inserida", pecas |-> <<g.peca>>]]

\* The result of a successful removal (helper of the variants of jogarPeca
\* below).
removidaDe(f, prox) ==
    [fila |-> [f EXCEPT !.frente = (f.frente + 1) % CAPACIDADE_FILA,
                        !.tamanho = @ - 1],
     proximo |-> prox, ret |-> 1,
     saida |-> [msg |-> "jogada", pecas |-> <<f.elementos[f.frente]>>]]

\* jogarPeca re-initialising the whole queue (frente too) when it is empty.
jogarPeca_reiniciaFrente(f, prox) ==
    IF f.tamanho = 0
    THEN [fila |-> [f EXCEPT !.tras = -1, !.frente = 0], proximo |-> prox,
          ret |-> 0, saida |-> [msg |-> "vazia", pecas |-> <<>>]]
    ELSE removidaDe(f, prox)

\* jogarPeca stepping tras back by one on the empty queue instead of
\* setting it to -1.
jogarPeca_trasRecua(f, prox) ==
    IF f.tamanho = 0
    THEN [fila |-> [f EXCEPT !.tras = IF @ >= 0 THEN @ - 1 ELSE CAPACIDADE_FILA - 1],
          proximo |-> prox,
          ret |-> 0, saida |-> [msg |-> "vazia", pecas |-> <<>>]]
    ELSE removidaDe(f, prox)

\* jogarPeca reading the piece after frente has been advanced.
jogarPeca_leDepois(f, prox) ==
    IF f.tamanho = 0
    THEN [fila |-> [f EXCEPT !.tras = -1], proximo |-> prox, ret |-> 0,
          saida |-> [msg |-> "vazia", pecas |-> <<>>]]
    ELSE LET frente == (f.frente + 1) % CAPACIDADE_FILA
         IN  [fila |-> [f EXCEPT !.frente = frente, !.tamanho = @ - 1],
              proximo |-> prox, ret |-> 1,
              saida |-> [msg |-> "jogada", pecas |-> <<f.elementos[frente]>>]]

\* int jogarPeca(FilaPecas* fila)
jogarPeca(f, prox) ==
    IF f.tamanho = 0
    THEN [fila |-> [f EXCEPT !.tras = -1], proximo |-> prox, ret |-> 0,
          saida |-> [msg |-> "vazia", pecas |-> <<>>]]
    ELSE LET peca_removida == f.elementos[f.frente]
         IN  [fila |-> [f EXCEPT !.frente = (f.frente + 1) % CAPACIDADE_FILA,
                                 !.tamanho = @ - 1],
              proximo |-> prox, ret |-> 1,
              saida |-> [msg |-> "jogada", pecas |-> <<peca_removida>>]]

\* The while loop of exibirFila from index i with count pieces printed.
RECURSIVE exibirLaco(_, _, _)
exibirLaco(f, i, count) ==
    IF count < f.tamanho
    THEN <<f.elementos[i]>> \o exibirLaco(f, (i + 1) % CAPACIDADE_FILA, count + 1)
    ELSE <<>>

\* void exibirFila(const FilaPecas* fila): the pieces it prints, in order.
exibirFila(f) ==
    IF f.tamanho = 0 THEN <<>> ELSE exibirLaco(f, f.frente, 0)

\* ---------------------------------------------------------------- history
\* The successful calls so far are j dequeues ("jogando") followed by
\* enqueues ("inserindo"); "fora" once a dequeue follows an enqueue.
cenarioApos(c, nome, r) ==
    IF r = 0 THEN c
    ELSE IF nome = "jogarPeca"
         THEN (IF c \in {"inicio", "jogando"} THEN "jogando" ELSE "fora")
         ELSE (IF c \in {"jogando", "inserindo"} THEN "inserindo" ELSE "fora")

\* Consecutive failed calls of the same function, after a call of `nome`
\* that returned r.
falhasApos(nome, r) ==
    IF r # 0 THEN 0
    ELSE IF chamada = nome /\ ret = 0 /\ falhas_seguidas >= 1
         THEN (IF falhas_seguidas < MaxFalhas THEN falhas_seguidas + 1 ELSE MaxFalhas)
         ELSE 1

\* ---------------------------------------------------------------- Init
\* main up to the do loop: inicializarFila(&fila);
\* preencherFilaInicial(&fila, CAPACIDADE_FILA);
Init ==
    \E rs \in [1 .. CAPACIDADE_FILA -> IndicesAleatorios] :
        LET f0 == [elementos |-> [i \in Indices |-> NaoEscrito],
                   frente |-> 0, tras |-> 0, tamanho |-> 0]
            p  == preencherFilaInicial(inicializarFila(f0), 0, CAPACIDADE_FILA, rs)
        IN  /\ fila = p.fila
            /\ proximo_id_peca = p.proximo
            /\ opcao = <<>>
            /\ pc = "exibir"
            /\ saida = [msg |-> "nada", pecas |-> <<>>]
            /\ chamada = "nenhuma"
            /\ ret = 0
            /\ pendentes = [i \in 1 .. p.fila.tamanho |-> p.fila.elementos[i - 1]]
            /\ num_jogadas = 0
            /\ cenario = "inicio"
            /\ falhas_seguidas = 0
            /\ num_pecas = CAPACIDADE_FILA

\* ---------------------------------------------------------------- actions
\* Top of the do loop: exibirFila(&fila), then the menu is printed.
ExibirFila ==
    /\ pc = "exibir"
    /\ saida' = [msg |-> "fila", pecas |-> exibirFila(fila)]
    /\ pc' = "ler"
    /\ UNCHANGED <<fila, proximo_id_peca, opcao, chamada, ret,
                   pendentes, num_jogadas, cenario, falhas_seguidas, num_pecas>>

\* scanf reads 1: case 1: jogarPeca(&fila);
OpcaoJogar ==
    /\ pc = "ler"
    /\ LET res == jogarPeca(fila, proximo_id_peca)
       IN  /\ fila' = res.fila
           /\ proximo_id_peca' = res.proximo
           /\ ret' = res.ret
           /\ saida' = res.saida
           /\ pendentes' = IF res.ret = 1
                            THEN SelectSeq(pendentes,
                                           LAMBDA p : p # res.saida.pecas[1])
                            ELSE pendentes
           /\ num_jogadas' = IF res.ret = 1 THEN num_jogadas + 1 ELSE num_jogadas
           /\ cenario' = cenarioApos(cenario, "jogarPeca", res.ret)
           /\ falhas_seguidas' = falhasApos("jogarPeca", res.ret)
    /\ opcao' = <<1>>
    /\ chamada' = "jogarPeca"
    /\ pc' = "exibir"
    /\ UNCHANGED num_pecas

\* scanf reads 2: case 2: inserirPeca(&fila);
OpcaoInserir ==
    /\ pc = "ler"
    /\ fila.tamanho = CAPACIDADE_FILA \/ proximo_id_peca < MaxId
    /\ \E r \in IndicesAleatorios :
         LET res == inserirPeca(fila, proximo_id_peca, r)
         IN  /\ fila' = res.fila
             /\ proximo_id_peca' = res.proximo
             /\ ret' = res.ret
             /\ saida' = res.saida
             /\ pendentes' = IF res.ret = 1 THEN pendentes \o res.saida.pecas
                                            ELSE pendentes
             /\ cenario' = cenarioApos(cenario, "inserirPeca", res.ret)
             /\ falhas_seguidas' = falhasApos("inserirPeca", res.ret)
    /\ opcao' = <<2>>
    /\ chamada' = "inserirPeca"
    /\ pc' = "exibir"
    /\ UNCHANGED <<num_jogadas, num_pecas>>

\* scanf reads 0: case 0: the loop condition opcao != 0 fails.
OpcaoSair ==
    /\ pc = "ler"
    /\ opcao' = <<0>>
    /\ saida' = [msg |-> "saindo", pecas |-> <<>>]
    /\ pc' = "fim"
    /\ UNCHANGED <<fila, proximo_id_peca, chamada, ret,
                   pendentes, num_jogadas, cenario, falhas_seguidas, num_pecas>>

\* scanf reads another number: default:
OpcaoInvalida ==
    /\ pc = "ler"
    /\ \E n \in OutrasOpcoes : opcao' = <<n>>
    /\ saida' = [msg |-> "invalida", pecas |-> <<>>]
    /\ pc' = "exibir"
    /\ UNCHANGED <<fila, proximo_id_peca, chamada, ret,
                   pendentes, num_jogadas, cenario, falhas_seguidas, num_pecas>>

\* scanf(...) != 1: `continue` jumps to the loop condition opcao != 0, which
\* reads opcao; while opcao is unassigned the read is of an indeterminate
\* value, so the loop may go on or end.
EntradaNaoNumerica ==
    /\ pc = "ler"
    /\ saida' = [msg |-> "naonumero", pecas |-> <<>>]
    /\ \/ opcao = <<>> /\ pc' \in {"exibir", "fim"}
       \/ opcao # <<>> /\ pc' = (IF opcao # <<0>> THEN "exibir" ELSE "fim")
    /\ UNCHANGED <<fila, proximo_id_peca, opcao, chamada, ret,
                   pendentes, num_jogadas, cenario, falhas_seguidas, num_pecas>>

Next ==
    \/ ExibirFila
    \/ OpcaoJogar
    \/ OpcaoInserir
    \/ OpcaoSair
    \/ OpcaoInvalida
    \/ EntradaNaoNumerica

Spec == Init /\ [][Next]_vars

\* ------------------------------------------------- the fill, called freely
\* Bound of the model: preencherFilaInicial is called with num_pecas in
\* 0 .. MaxNumPecas.
MaxNumPecas == 10

\* Bound of the model: preencherFilaInicial is called only while the pieces
\* it generates keep the id counter within MaxIdPreencher.
MaxIdPreencher == 6

\* min(n, CAPACIDADE_FILA)
Limitado(n) == IF n > CAPACIDADE_FILA THEN CAPACIDADE_FILA ELSE n

\* FilaPecas fila; inicializarFila(&fila); with the id counter at its
\* initial value 0 and nothing generated yet.
InitPreencher ==
    /\ fila = inicializarFila([elementos |-> [i \in Indices |-> NaoEscrito],
                               frente |-> 0, tras |-> 0, tamanho |-> 0])
    /\ proximo_id_peca = 0
    /\ opcao = <<>>
    /\ pc = "preencher"
    /\ saida = [msg |-> "nada", pecas |-> <<>>]
    /\ chamada = "nenhuma"
    /\ ret = 0
    /\ pendentes = <<>>
    /\ num_jogadas = 0
    /\ cenario = "inicio"
    /\ falhas_seguidas = 0
    /\ num_pecas = 0

\* preencherFilaInicial(&fila, n), for any n and any random draws, on the
\* queue as it is; it prints nothing and returns nothing.
Preencher ==
    /\ pc = "preencher"
    /\ \E n \in 0 .. MaxNumPecas :
       \E rs \in [1 .. Limitado(n) -> IndicesAleatorios] :
         LET p == preencherFilaInicial(fila, proximo_id_peca, n, rs)
         IN  /\ proximo_id_peca + Limitado(n) <= MaxIdPreencher
             /\ fila' = p.fila
             /\ proximo_id_peca' = p.proximo
             /\ num_pecas' = n
             /\ pendentes' = pendentes \o
                   [k \in 1 .. (p.proximo - proximo_id_peca) |->
                       gerarPeca(proximo_id_peca + k - 1, rs[k]).peca]
    /\ chamada' = "preencherFilaInicial"
    /\ saida' = [msg |-> "nada", pecas |-> <<>>]
    /\ UNCHANGED <<opcao, pc, ret, num_jogadas, cenario, falhas_seguidas>>

\* inicializarFila(&fila) on the queue as it is; the id counter and the
\* slots are not touched.
Reinicializar ==
    /\ pc = "preencher"
    /\ fila' = inicializarFila(fila)
    /\ pendentes' = <<>>
    /\ chamada' = "inicializarFila"
    /\ saida' = [msg |-> "nada", pecas |-> <<>>]
    /\ UNCHANGED <<proximo_id_peca, opcao, pc, ret, num_jogadas, cenario,
                   falhas_seguidas, num_pecas>>

NextPreencher ==
    \/ Preencher
    \/ Reinicializar

SpecPreencher == InitPreencher /\ [][NextPreencher]_vars

\* ---------------------------------------------------------------- claims
\* A step that is a successful jogarPeca, a failed jogarPeca, a successful
\* inserirPeca, a failed inserirPeca.
JogouComSucesso == OpcaoJogar /\ fila.tamanho > 0
JogouVazia == OpcaoJogar /\ fila.tamanho = 0
InseriuComSucesso == OpcaoInserir /\ fila.tamanho < CAPACIDADE_FILA
InseriuCheia == OpcaoInserir /\ fila.tamanho = CAPACIDADE_FILA

\* The fields of a queue state that the operations read and write.
EstadoFila == <<fila, proximo_id_peca>>

\* C1: FIFO across any interleaving. Every successful jogarPeca returns the
\* oldest piece enqueued and not yet returned, whose id is the smallest among
\* them and equals the number of earlier successful dequeues (ids are handed
\* out 0, 1, 2, ... in enqueue order, so none is repeated and none skipped).
C1_FIFO ==
    [][JogouComSucesso =>
          /\ saida'.pecas = <<Head(pendentes)>>
          /\ \A i \in 1 .. Len(pendentes) : Head(pendentes).id <= pendentes[i].id
          /\ Head(pendentes).id = num_jogadas]_vars

\* C2: the count stays within 0 .. CAPACIDADE_FILA in every reachable state.
C2_CountBound ==
    /\ 0 <= fila.tamanho
    /\ fila.tamanho <= CAPACIDADE_FILA

\* C2 witness: after some dequeues the queue was filled up again and a
\* further enqueue was attempted at the upper bound.
C2_Witness ==
    /\ chamada = "inserirPeca" /\ ret = 0
    /\ fila.tamanho = CAPACIDADE_FILA
    /\ num_jogadas > 0

\* C3: contiguous circular run. With tamanho > 0 the pieces enqueued and not
\* yet dequeued sit in slots frente, frente+1, ... (mod CAPACIDADE_FILA), and
\* tras is the last slot of that run.
C3_ContiguousRun ==
    fila.tamanho > 0 =>
        /\ Len(pendentes) = fila.tamanho
        /\ \A i \in 0 .. (fila.tamanho - 1) :
              fila.elementos[(fila.frente + i) % CAPACIDADE_FILA] = pendentes[i + 1]
        /\ fila.tras = (fila.frente + fila.tamanho - 1) % CAPACIDADE_FILA

\* C4: snapshot correctness. What exibirFila enumerates is exactly the pieces
\* enqueued and not yet dequeued, oldest first, tamanho of them, and the call
\* changes neither the queue nor the id counter.
C4_Snapshot ==
    [][ExibirFila =>
          /\ saida'.pecas = pendentes
          /\ Len(saida'.pecas) = fila.tamanho
          /\ exibirFila(fila') = saida'.pecas
          /\ UNCHANGED EstadoFila]_vars

\* Bound of the model: length of the call sequences compared after a
\* failed call.
MaxSeguintes == 2

\* The calls a caller can make next: jogarPeca, or inserirPeca with one of
\* the random draws.
Chamadas ==
    {<<"jogarPeca", 0>>} \cup {<<"inserirPeca", r>> : r \in IndicesAleatorios}

\* Sequences of 0 .. MaxSeguintes calls.
SequenciasDeChamadas ==
    UNION {[1 .. n -> Chamadas] : n \in 0 .. MaxSeguintes}

\* What a caller observes when making the calls cs from queue f and counter
\* prox: per call its result, what it prints, and the snapshot after it.
RECURSIVE Observado(_, _, _)
Observado(f, prox, cs) ==
    IF cs = <<>> THEN <<>>
    ELSE LET c   == Head(cs)
             res == IF c[1] = "jogarPeca" THEN jogarPeca(f, prox)
                                          ELSE inserirPeca(f, prox, c[2])
         IN  <<[ret |-> res.ret, saida |-> res.saida,
                exibida |-> exibirFila(res.fila)]>>
             \o Observado(res.fila, res.proximo, Tail(cs))

\* C5: failure is transparent. After a call that reports Full or Empty,
\* every following sequence of calls gives the results, returned pieces and
\* snapshots it would have given had the failed call not been made.
C5_FailureTransparent ==
    [][(JogouVazia \/ InseriuCheia) =>
          \A cs \in SequenciasDeChamadas :
              Observado(fila', proximo_id_peca', cs)
                  = Observado(fila, proximo_id_peca, cs)]_vars

\* C6: jogarPeca on the empty queue returns 0, leaves frente, tamanho,
\* elementos and the id counter as they were, and sets tras to -1.
C6_DequeueEmpty ==
    [][JogouVazia =>
          /\ ret' = 0
          /\ fila'.frente = fila.frente
          /\ fila'.tamanho = fila.tamanho
          /\ fila'.elementos = fila.elementos
          /\ fila'.tras = -1
          /\ proximo_id_peca' = proximo_id_peca]_vars

\* C6 witness: a dequeue was refused on a queue emptied away from index 0.
C6_Witness ==
    /\ chamada = "jogarPeca" /\ ret = 0
    /\ fila.tamanho = 0 /\ fila.tras = -1 /\ fila.frente # 0

\* C7: inserirPeca on the full queue returns 0 and changes neither the queue
\* (frente, tras, tamanho, every slot) nor the id counter.
C7_EnqueueFull ==
    [][InseriuCheia =>
          /\ ret' = 0
          /\ fila' = fila
          /\ proximo_id_peca' = proximo_id_peca]_vars

\* C7 witness: an insertion was refused on a full queue that wraps around
\* the end of the array.
C7_Witness ==
    /\ chamada = "inserirPeca" /\ ret = 0
    /\ fila.tamanho = CAPACIDADE_FILA /\ fila.frente # 0

\* C8: ids are handed out 0, 1, 2, ... The initial fill leaves ids
\* 0 .. CAPACIDADE_FILA-1 and the counter at CAPACIDADE_FILA; a successful
\* insertion stores a piece whose id is the counter and adds 1 to it; no
\* other step (dequeue, refused insertion, snapshot, menu) changes the counter.
C8_IdsSemLacunas ==
    /\ proximo_id_peca = CAPACIDADE_FILA
    /\ \A i \in Indices : fila.elementos[i].id = i
    /\ [][/\ InseriuComSucesso =>
                /\ proximo_id_peca' = proximo_id_peca + 1
                /\ saida'.pecas[1].id = proximo_id_peca
                /\ fila'.elementos[fila'.tras].id = proximo_id_peca
          /\ ~InseriuComSucesso => proximo_id_peca' = proximo_id_peca]_vars

\* C8 witness: the last id the bound allows was handed out after dequeues
\* and refused calls took place.
C8_Witness ==
    /\ chamada = "inserirPeca" /\ ret = 1
    /\ proximo_id_peca = MaxId
    /\ fila.elementos[fila.tras].id = MaxId - 1
    /\ num_jogadas > 0

\* C9: wrap-around. From the full initial queue, after k successful dequeues
\* followed by k successful enqueues (1 <= k <= CAPACIDADE_FILA) the snapshot
\* is the ids k .. CAPACIDADE_FILA+k-1 in order, and the new pieces occupy
\* slots 0 .. k-1 of the array.
C9_WrapAround ==
    \A k \in 1 .. CAPACIDADE_FILA :
        (/\ cenario = "inserindo"
         /\ num_jogadas = k
         /\ proximo_id_peca = CAPACIDADE_FILA + k)
        => /\ [i \in 1 .. Len(exibirFila(fila)) |-> exibirFila(fila)[i].id]
                = [i \in 1 .. CAPACIDADE_FILA |-> k + i - 1]
           /\ \A j \in 0 .. (k - 1) : fila.elementos[j].id = CAPACIDADE_FILA + j

\* C9 witness: the scenario with k = CAPACIDADE_FILA, the whole array reused.
C9_Witness ==
    /\ cenario = "inserindo"
    /\ num_jogadas = CAPACIDADE_FILA
    /\ proximo_id_peca = 2 * CAPACIDADE_FILA

\* C10: idempotent failure. A jogarPeca on the empty queue returns 0 and
\* leaves tamanho 0, an inserirPeca on the full queue returns 0 and leaves
\* tamanho CAPACIDADE_FILA, and a failed call that follows a failed call of
\* the same function changes nothing (m failures leave what one leaves).
C10_IdempotentFailure ==
    [][/\ JogouVazia => ret' = 0 /\ fila'.tamanho = 0
       /\ InseriuCheia => ret' = 0 /\ fila'.tamanho = CAPACIDADE_FILA
       /\ (JogouVazia /\ chamada = "jogarPeca" /\ falhas_seguidas >= 1)
             => UNCHANGED EstadoFila
       /\ (InseriuCheia /\ chamada = "inserirPeca" /\ falhas_seguidas >= 1)
             => UNCHANGED EstadoFila]_vars

\* C10 witness: MaxFalhas dequeues in a row were refused on the empty queue.
C10_Witness ==
    /\ chamada = "jogarPeca" /\ ret = 0
    /\ falhas_seguidas = MaxFalhas
    /\ fila.tamanho = 0

\* A queue as inicializarFila leaves it.
FilaNova == fila.frente = 0 /\ fila.tras = -1 /\ fila.tamanho = 0

\* C11: clamping of the initial fill. preencherFilaInicial(fila, n) on a
\* freshly initialised queue leaves tamanho = min(n, CAPACIDADE_FILA),
\* consumes exactly that many ids and reports nothing.
C11_Clamping ==
    [][(Preencher /\ FilaNova) =>
          /\ fila'.tamanho = Limitado(num_pecas')
          /\ proximo_id_peca' = proximo_id_peca + Limitado(num_pecas')
          /\ saida'.msg = "nada"]_vars

\* C11 witness: the first fill of the run asked for MaxNumPecas pieces, more
\* than the capacity, and left the queue exactly full.
C11_Witness ==
    /\ chamada = "preencherFilaInicial"
    /\ num_pecas = MaxNumPecas /\ num_pecas > CAPACIDADE_FILA
    /\ fila.tamanho = CAPACIDADE_FILA
    /\ proximo_id_peca = CAPACIDADE_FILA

\* k successive inserirPeca calls from queue f and counter prox; rs is the
\* stream of random draws and j the position of the next one (a refused
\* call does not reach gerarPeca and draws nothing).
RECURSIVE InserirVezes(_, _, _, _, _)
InserirVezes(f, prox, k, rs, j) ==
    IF k <= 0 THEN [fila |-> f, proximo |-> prox]
    ELSE LET res == inserirPeca(f, prox, IF j \in DOMAIN rs THEN rs[j] ELSE 0)
         IN  InserirVezes(res.fila, res.proximo, k - 1, rs,
                          IF res.ret = 1 THEN j + 1 ELSE j)

\* C12: the bulk fill is a composition of the single-item enqueue. From any
\* queue state and for any n, preencherFilaInicial(fila, n) leaves the queue
\* and the id counter as min(n, CAPACIDADE_FILA) successive inserirPeca calls
\* leave them, Full check included.
C12_FillIsComposition ==
    \A n \in 0 .. MaxNumPecas :
      \A rs \in [1 .. Limitado(n) -> IndicesAleatorios] :
        LET p == preencherFilaInicial(fila, proximo_id_peca, n, rs)
            q == InserirVezes(fila, proximo_id_peca, Limitado(n), rs, 1)
        IN  p.fila = q.fila /\ p.proximo = q.proximo

\* C13: successful enqueue effect. inserirPeca returns 1 exactly when
\* tamanho < CAPACIDADE_FILA; then the new piece, whose id is the counter
\* before the call, is stored at (tras + 1) mod CAPACIDADE_FILA, tras becomes
\* that index, tamanho and the counter grow by 1, and frente and every other
\* slot stay as they were.
C13_EnqueueEffect ==
    [][/\ OpcaoInserir => (ret' = 1 <=> fila.tamanho < CAPACIDADE_FILA)
       /\ InseriuComSucesso =>
            LET novo == (fila.tras + 1) % CAPACIDADE_FILA
            IN  /\ fila'.tras = novo
                /\ fila'.elementos[novo].id = proximo_id_peca
                /\ fila'.elementos[novo] = saida'.pecas[1]
                /\ \A i \in Indices \ {novo} :
                       fila'.elementos[i] = fila.elementos[i]
                /\ fila'.tamanho = fila.tamanho + 1
                /\ fila'.frente = fila.frente
                /\ proximo_id_peca' = proximo_id_peca + 1]_vars

\* C13 witness: an insertion has just succeeded into slot 0 of a queue whose
\* oldest piece is not in slot 0 (the tail wrapped around the array).
C13_Witness ==
    /\ chamada = "inserirPeca" /\ ret = 1
    /\ fila.tras = 0 /\ fila.frente # 0 /\ fila.tamanho > 1

\* C14: successful dequeue effect. jogarPeca returns 1 exactly when
\* tamanho > 0; then the piece removed is the one at index frente, frente
\* becomes (frente + 1) mod CAPACIDADE_FILA, tamanho drops by 1, and tras,
\* every slot and the id counter stay as they were.
C14_DequeueEffect ==
    [][/\ OpcaoJogar => (ret' = 1 <=> fila.tamanho > 0)
       /\ JogouComSucesso =>
            /\ saida'.pecas = <<fila.elementos[fila.frente]>>
            /\ fila'.frente = (fila.frente + 1) % CAPACIDADE_FILA
            /\ fila'.tamanho = fila.tamanho - 1
            /\ fila'.tras = fila.tras
            /\ fila'.elementos = fila.elementos
            /\ proximo_id_peca' = proximo_id_peca]_vars

\* C14 witness: a removal has just succeeded that moved frente from the last
\* index of the array back to index 0.
C14_Witness ==
    /\ chamada = "jogarPeca" /\ ret = 1
    /\ fila.frente = 0 /\ num_jogadas >= CAPACIDADE_FILA

\* C15: tail sentinel. Whenever tamanho is 0, tras is -1, also right after
\* the successful dequeue that removes the last piece.
C15_TailSentinel ==
    fila.tamanho = 0 => fila.tras = -1

\* C16: no live piece is overwritten. A successful inserirPeca writes into a
\* slot whose piece is not among those enqueued and not yet returned.
C16_NoLiveOverwrite ==
    [][InseriuComSucesso =>
          \A i \in 1 .. Len(pendentes) :
              pendentes[i].id # fila.elementos[fila'.tras].id]_vars

\* C17: tail tracks the newest piece. With tamanho > 0, tras is an index of
\* the array and the piece there is the last one generated.
C17_TailIsNewest ==
    fila.tamanho > 0 =>
        /\ fila.tras \in Indices
        /\ fila.elementos[fila.tras].id = proximo_id_peca - 1

\* C17 witness: a non-empty queue whose tras is not at the end of the run
\* that starts at frente, after pieces beyond the initial fill were inserted.
C17_Witness ==
    /\ fila.tamanho > 0
    /\ fila.tras # (fila.frente + fila.tamanho - 1) % CAPACIDADE_FILA
    /\ proximo_id_peca > CAPACIDADE_FILA

\* The indices of elementos that exibirFila reads in queue f.
IndicesExibidos(f) ==
    {(f.frente + c) % CAPACIDADE_FILA : c \in 0 .. (f.tamanho - 1)}

\* C18: index safety. frente stays in 0 .. CAPACIDADE_FILA-1 and tras in
\* -1 .. CAPACIDADE_FILA-1; the slot jogarPeca reads (frente), the slot
\* inserirPeca writes (the new tras) and the slots exibirFila reads are
\* indices of the array, never the -1 sentinel.
C18_IndexSafety ==
    /\ fila.frente \in Indices
    /\ fila.tras \in -1 .. (CAPACIDADE_FILA - 1)
    /\ (chamada = "inserirPeca" /\ ret = 1) => fila.tras \in Indices
    /\ IndicesExibidos(fila) \subseteq Indices
    /\ Len(exibirFila(fila)) = Cardinality(IndicesExibidos(fila))

\* C18 witness: the tail is at the sentinel and the next steps (snapshot,
\* insertion) start from it, with frente away from index 0.
C18_Witness ==
    /\ fila.tras = -1 /\ fila.frente = CAPACIDADE_FILA - 1
    /\ pc = "ler"

\* C19: menu loop. The loop ends only when option 0 is read; a non-numeric
\* input or an unknown option changes neither the queue nor the id counter
\* and the loop prompts again, also when the very first input is non-numeric;
\* option 1 makes one jogarPeca call and option 2 one inserirPeca call.
C19_MenuLoop ==
    [][/\ (pc # "fim" /\ pc' = "fim") => opcao' = <<0>>
       /\ (EntradaNaoNumerica \/ OpcaoInvalida) =>
             /\ UNCHANGED EstadoFila
             /\ pc' = "exibir"
       /\ OpcaoJogar =>
             /\ fila' = jogarPeca(fila, proximo_id_peca).fila
             /\ chamada' = "jogarPeca"
       /\ OpcaoInserir =>
             /\ \E r \in IndicesAleatorios :
                   fila' = inserirPeca(fila, proximo_id_peca, r).fila
             /\ chamada' = "inserirPeca"]_vars

====
